---- MODULE Spec2Model ----
(***************************************************************************)
(* DownloadTool (tools/browser/download.ts) and LoadCookiesTool             *)
(* (tools/browser/cookies.ts) as state machines.                           *)
(*                                                                         *)
(* JavaScript runs each invocation of execute to its next await without    *)
(* interruption, so one action is one such run: from the call to the       *)
(* await of the trigger, from the trigger's settlement to the await of the *)
(* download promise, and so on.  Every call an invocation makes on a       *)
(* collaborator (fs, page, download, server) and on its own registry is    *)
(* appended, in program order, to that invocation's call log.              *)
(***************************************************************************)
EXTENDS Integers, Sequences, FiniteSets, TLC

\* ------------------------------------------------------------------ bounds
\* Ticks of the clock that are explored one by one.
MaxTime == 2
\* The largest timeout a request supplies, in ticks.
MaxTimeout == 2
\* The longest array of cookie entries a stored document holds.
MaxCookies == 2

\* ------------------------------------------------------- program constants
DefaultTimeout == 30000
KiB == 1024

\* ------------------------------------------------------------- JS values
Undef == [t |-> "undefined"]
Str(s) == [t |-> "string", s |-> s]
Num(n) == [t |-> "number", n |-> n]
TrigObj(type, selector, script, keys) ==
  [t |-> "object", type |-> type, selector |-> selector,
   script |-> script, keys |-> keys]

\* JavaScript truthiness, as `!x` and `x || y` use it.
Truthy(v) ==
  CASE v.t = "undefined" -> FALSE
    [] v.t = "null"      -> FALSE
    [] v.t = "string"    -> v.s # ""
    [] v.t = "number"    -> v.n # 0
    [] OTHER             -> TRUE

\* A text is a sequence of fragments; the fragment "Timeout" is the only one
\* in which the substring 'Timeout' occurs.
Includes(text, fragment) == \E i \in DOMAIN text : text[i] = fragment

NonEmpty(seq) == SelectSeq(seq, LAMBDA s : s # "")

\* JSON.stringify of a trigger value, as a text.
Stringify(v) ==
  CASE v.t = "number" -> <<ToString(v.n)>>
    [] v.t = "string" -> <<v.s>>
    [] v.t = "object" -> NonEmpty(<<v.type, v.selector, v.script, v.keys>>)
    [] OTHER          -> <<>>

\* A thrown value: an Error with a message, or a value that is no Error
\* (its .message is undefined).
Err(msg) == [kind |-> "Error", message |-> msg]
NonError == [kind |-> "value", message |-> <<>>]
TypeErrorUndefined == Err(<<"Cannot read properties of undefined">>)

\* ---------------------------------------------------------------- inputs
\* Two invocations of execute can be in flight on the one tool instance.
Invocations == {"i1", "i2"}
Names == {"a", "b"}
defaultDownloadsPath == "~/Downloads"
CustomDir == "/custom"

NameArgs == {Undef, Str("")} \cup {Str(n) : n \in Names}
TriggerArgs ==
  { Undef,
    Str("#btn"),
    TrigObj("click", ".link", "", ""),
    TrigObj("evaluate", "", "go()", ""),
    TrigObj("keyboard", "", "", "Control+S"),
    TrigObj("click", "", "", ""),
    TrigObj("ftp", "", "", ""),
    TrigObj("Timeout", "", "", ""),
    Num(123) }
TimeoutArgs == {Undef} \cup {Num(n) : n \in 0..MaxTimeout}
DirArgs == {Undef, Str(CustomDir)}

Args == [name : NameArgs, trigger : TriggerArgs, timeout : TimeoutArgs,
         downloadsDir : DirArgs]
NoArgs == [name |-> Undef, trigger |-> Undef, timeout |-> Undef,
           downloadsDir |-> Undef]

\* What a failing collaborator raises.
Thrown == {Err(<<"boom">>), Err(<<"Timeout", " exceeded">>), NonError}
SuggestedNames == {"", "report.pdf"}
StatSizes == {0, KiB, KiB + 512}

\* -------------------------------------------------------------- responses
Response(isError, content) == [isError |-> isError, content |-> content]
NoResponse == Response(FALSE, <<>>)
createErrorResponse(text) == Response(TRUE, <<text>>)
createSuccessResponse(texts) == Response(FALSE, texts)

TimeoutText(timeout) ==
  <<"Download timeout after ", ToString(timeout),
    "ms. No download was triggered or completed within the specified time.">>

\* One call of a collaborator, with its argument as a text.
Call(op, arg) == [op |-> op, arg |-> arg]


\* What a collaborator's call comes to: it completes, or raises a value.
Ok == [kind |-> "ok", message |-> <<>>]
Outcomes == {Ok} \cup Thrown
\* server.notification is not awaited: besides completing or throwing, it
\* may return a promise that is rejected later, which nothing handles.
Rejects == [kind |-> "rejects", message |-> <<>>]
NotifyOutcomes == Outcomes \cup {Rejects}
\* What statSync comes to: the size, or a throw.
StatOutcomes ==
  {[ok |-> TRUE, size |-> s] : s \in StatSizes} \cup {[ok |-> FALSE, size |-> 0]}

\* The inputs and the collaborators' behaviours a run draws from.
Full ==
  [args |-> Args, pages |-> BOOLEAN, outcomes |-> Outcomes,
   notify |-> NotifyOutcomes, stats |-> StatOutcomes,
   suggested |-> SuggestedNames, ticks |-> MaxTime]
\* Two concurrent invocations: valid requests on an active page, with
\* collaborators that complete or raise an Error.
PairArgs ==
  [name : {Str(n) : n \in Names}, trigger : {Str("#btn")},
   timeout : {Num(1)}, downloadsDir : {Undef}]
Pair ==
  [args |-> PairArgs, pages |-> {TRUE}, outcomes |-> {Ok, Err(<<"boom">>)},
   notify |-> {Ok}, stats |-> {[ok |-> TRUE, size |-> KiB],
                               [ok |-> FALSE, size |-> 0]},
   suggested |-> {"report.pdf"}, ticks |-> MaxTime - 1]

\* ------------------------------------------------------ DownloadTool code
ValidationErrorUndefinedOnly(a) ==
  IF a.name.t = "undefined" THEN <<"Missing required parameter: name">>
  ELSE IF a.trigger.t = "undefined"
    THEN <<"Missing required parameter: trigger">>
  ELSE <<>>
ValidationErrorTriggerFirst(a) ==
  IF ~Truthy(a.trigger) THEN <<"Missing required parameter: trigger">>
  ELSE IF ~Truthy(a.name) THEN <<"Missing required parameter: name">>
  ELSE <<>>
\* execute, validation of the required parameters.
ValidationError(a) ==
  IF ~Truthy(a.name) THEN <<"Missing required parameter: name">>
  ELSE IF ~Truthy(a.trigger) THEN <<"Missing required parameter: trigger">>
  ELSE <<>>

\* const timeout = args.timeout || 30000
TimeoutOf(a) == IF Truthy(a.timeout) THEN a.timeout.n ELSE DefaultTimeout

\* const downloadsDir = args.downloadsDir || defaultDownloadsPath
DirOf(a) ==
  IF Truthy(a.downloadsDir) THEN a.downloadsDir.s ELSE defaultDownloadsPath

\* executeTrigger, to its await: the page action it starts, or the Error it
\* throws.
Dispatch(op, arg) ==
  [throws |-> FALSE, call |-> Call(op, <<arg>>), error |-> Ok]
Throw(e) == [throws |-> TRUE, call |-> Call("", <<>>), error |-> e]
executeTrigger(trigger) ==
  IF trigger.t = "string" THEN Dispatch("click", trigger.s)
  ELSE IF trigger.t = "object" THEN
    IF trigger.type = "click" /\ trigger.selector # ""
      THEN Dispatch("click", trigger.selector)
    ELSE IF trigger.type = "evaluate" /\ trigger.script # ""
      THEN Dispatch("evaluate", trigger.script)
    ELSE IF trigger.type = "keyboard" /\ trigger.keys # ""
      THEN Dispatch("press", trigger.keys)
    ELSE Throw(Err(<<"Unsupported trigger type: ">> \o Stringify(trigger)))
  ELSE Throw(Err(<<"Invalid trigger parameter: ">> \o Stringify(trigger)))

CatchHandlerBareMessage(error, timeout) ==
  IF error.kind # "Error"
    THEN [throws |-> TRUE, error |-> TypeErrorUndefined, resp |-> NoResponse]
  ELSE IF Includes(error.message, "Timeout")
    THEN [throws |-> FALSE, error |-> Ok,
          resp |-> createErrorResponse(TimeoutText(timeout))]
  ELSE [throws |-> FALSE, error |-> Ok,
        resp |-> createErrorResponse(error.message)]
\* The catch block of execute: the response it returns, or the TypeError
\* that reading .includes of an undefined message raises.
CatchHandler(error, timeout) ==
  IF error.kind # "Error"
    THEN [throws |-> TRUE, error |-> TypeErrorUndefined, resp |-> NoResponse]
  ELSE IF Includes(error.message, "Timeout")
    THEN [throws |-> FALSE, error |-> Ok,
          resp |-> createErrorResponse(TimeoutText(timeout))]
  ELSE [throws |-> FALSE, error |-> Ok,
        resp |-> createErrorResponse(<<"Download failed: ">> \o error.message)]

EnsureDirCallsAlways(dir, dirExists) ==
  <<Call("existsSync", <<dir>>), Call("mkdirSync", <<dir>>)>>
\* The calls of "ensure downloads directory exists".
EnsureDirCalls(dir, dirExists) ==
  <<Call("existsSync", <<dir>>)>>
    \o (IF dirExists THEN <<>> ELSE <<Call("mkdirSync", <<dir>>)>>)

TriggerCallsRetried(trigger) ==
  IF executeTrigger(trigger).throws THEN <<>>
  ELSE <<executeTrigger(trigger).call, executeTrigger(trigger).call>>
\* The calls of the first two statements of the try block: the wait for the
\* download event is registered, then the trigger is executed.
TriggerCalls(trigger) ==
  IF executeTrigger(trigger).throws THEN <<>>
  ELSE <<executeTrigger(trigger).call>>
TryCallsTriggerFirst(timeout, trigger) ==
  TriggerCalls(trigger) \o <<Call("waitForEvent", <<ToString(timeout)>>)>>
TryCalls(timeout, trigger) ==
  <<Call("waitForEvent", <<ToString(timeout)>>)>> \o TriggerCalls(trigger)

\* A run of the operation, from one await to the next: it returns a
\* response, throws, or suspends at an await; calls are the calls it made.
Returns(resp, calls) ==
  [outcome |-> "return", resp |-> resp, error |-> Ok, calls |-> calls]
Throws(e, calls) ==
  [outcome |-> "throw", resp |-> NoResponse, error |-> e, calls |-> calls]
Awaits(calls) ==
  [outcome |-> "await", resp |-> NoResponse, error |-> Ok, calls |-> calls]

\* A value thrown inside the try block goes through the catch block.
Caught(e, timeout, calls) ==
  IF CatchHandler(e, timeout).throws
    THEN Throws(CatchHandler(e, timeout).error, calls)
  ELSE Returns(CatchHandler(e, timeout).resp, calls)

\* The operation from its call to its first await.  mk is what mkdirSync
\* comes to when it is called.
ExecuteBody(a, dirExists, mk) ==
  IF ValidationError(a) # <<>>
    THEN Returns(createErrorResponse(ValidationError(a)), <<>>)
  ELSE IF ~dirExists /\ mk.kind # "ok"
    THEN Throws(mk, EnsureDirCalls(DirOf(a), dirExists))
  ELSE
    LET calls == EnsureDirCalls(DirOf(a), dirExists)
                   \o TryCalls(TimeoutOf(a), a.trigger)
    IN IF executeTrigger(a.trigger).throws
         THEN Caught(executeTrigger(a.trigger).error, TimeoutOf(a), calls)
       ELSE Awaits(calls)

SuggestedFilenameAsIs(d) == d.suggested
\* const suggestedFilename = download.suggestedFilename() || 'downloaded-file'
SuggestedFilename(d) ==
  IF d.suggested # "" THEN d.suggested ELSE "downloaded-file"

\* path.join(downloadsDir, `${downloadName}-${timestamp}-${suggestedFilename}`)
SavePath(dir, name, timestamp, suggested) ==
  <<dir, "/", name, "-", ToString(timestamp), "-", suggested>>

\* The operation from the observed download event to the await of saveAs.
SaveRun(a, d, time) ==
  Awaits(<<Call("saveAs",
                SavePath(DirOf(a), a.name.s, time, SuggestedFilename(d)))>>)

\* formatBytes
RECURSIVE Pow(_, _)
Pow(b, e) == IF e = 0 THEN 1 ELSE b * Pow(b, e - 1)
RECURSIVE LogK(_)
LogK(bytes) == IF bytes < KiB THEN 0 ELSE 1 + LogK(bytes \div KiB)
Sizes == <<"Bytes", "KB", "MB", "GB">>
Hundredths(bytes, i) == (2 * 100 * bytes + Pow(KiB, i)) \div (2 * Pow(KiB, i))
FloatText(h) ==
  IF h % 100 = 0 THEN <<ToString(h \div 100)>>
  ELSE IF h % 10 = 0 THEN <<ToString(h \div 100), ".", ToString((h % 100) \div 10)>>
  ELSE <<ToString(h \div 100), ".", ToString((h % 100) \div 10), ToString(h % 10)>>
formatBytes(bytes) ==
  IF bytes = 0 THEN <<"0 Bytes">>
  ELSE FloatText(Hundredths(bytes, LogK(bytes)))
         \o <<" ", IF LogK(bytes) + 1 \in DOMAIN Sizes
                     THEN Sizes[LogK(bytes) + 1] ELSE "undefined">>

DownloadInfoMisnamed(a, d, savePath, time, st) ==
  [name |-> SuggestedFilename(d), originalFilename |-> SuggestedFilename(d),
   savePath |-> savePath, timestamp |-> time, url |-> d.url,
   hasSize |-> st.ok, size |-> st.size]
\* The DownloadInfo record; size is optional.
DownloadInfo(a, d, savePath, time, st) ==
  [name |-> a.name.s, originalFilename |-> SuggestedFilename(d),
   savePath |-> savePath, timestamp |-> time, url |-> d.url,
   hasSize |-> st.ok, size |-> st.size]

\* The texts of the success response.
SuccessTexts(info) ==
  << <<"Download completed successfully">>,
     <<"File saved to: ">> \o info.savePath,
     <<"Original filename: ", info.originalFilename>>,
     <<"Download stored in memory with name: '", info.name, "'">> >>
    \o (IF info.hasSize /\ info.size # 0
          THEN << <<"File size: ">> \o formatBytes(info.size) >> ELSE <<>>)

RecordCallsNotifyFirst(info) ==
  <<Call("statSync", info.savePath),
    Call("notification", <<"notifications/resources/list_changed">>),
    Call("downloads.set", <<info.name>>)>>
\* The calls of the operation after saveAs has completed.
RecordCalls(info) ==
  <<Call("statSync", info.savePath), Call("downloads.set", <<info.name>>),
    Call("notification", <<"notifications/resources/list_changed">>)>>

\* The operation after saveAs has completed: st is what statSync comes to,
\* nt what server.notification comes to.
RecordRun(a, info, nt) ==
  IF nt.kind \in {"ok", "rejects"}
    THEN Returns(createSuccessResponse(SuccessTexts(info)), RecordCalls(info))
  ELSE Caught(nt, TimeoutOf(a), RecordCalls(info))

\* this.downloads, a Map from names to DownloadInfo records.
MapSetAlone(map, key, value) == [n \in {key} |-> value]
MapSetKeepFirst(map, key, value) ==
  [n \in DOMAIN map \cup {key} |-> IF n \in DOMAIN map THEN map[n] ELSE value]
MapClearOne(map) == [n \in DOMAIN map \ {"a"} |-> map[n]]
MapSet(map, key, value) ==
  [n \in DOMAIN map \cup {key} |-> IF n = key THEN value ELSE map[n]]
MapClear(map) == [n \in {} |-> map[n]]
MapDelete(map, key) == [n \in DOMAIN map \ {key} |-> map[n]]
MapSize(map) == Cardinality(DOMAIN map)
UndefinedInfo ==
  [name |-> "", originalFilename |-> "", savePath |-> <<>>, timestamp |-> -1,
   url |-> "", hasSize |-> FALSE, size |-> 0]
MapGet(map, key) == IF key \in DOMAIN map THEN map[key] ELSE UndefinedInfo

\* ---------------------------------------------- BrowserToolBase.safeExecute
\* The page check that precedes the operation.
PageError == createErrorResponse(<<"Browser page not initialized">>)
\* A value the operation throws becomes an error response.
SafeExecuteCatch(e) ==
  createErrorResponse(<<"Operation failed: ">> \o e.message)
safeExecute(hasPage, run) ==
  IF ~hasPage THEN Returns(PageError, <<>>)
  ELSE IF run.outcome = "throw"
    THEN Returns(SafeExecuteCatch(run.error), run.calls)
  ELSE run

\* ----------------------------------------- LoadCookiesTool (cookies.ts)
\* JSON values: null, strings (Str), arrays and objects.
JNull == [t |-> "null"]
JArr(items) == [t |-> "array", items |-> items]
JObj(fields) == [t |-> "object", fields |-> fields]

\* What redisClient.get resolves to: null for an absent key, or a string,
\* which is the text of a JSON document or is not.
StoredText(s, valid, json) ==
  [t |-> "string", s |-> s, valid |-> valid, json |-> json]
JSONparse(text) == [throws |-> ~text.valid, value |-> text.json]

\* Entries of a stored cookie array.
CookieLax ==
  JObj([name |-> Str("sid"), value |-> Str("1"), sameSite |-> Str("Lax")])
CookiePlain == JObj([name |-> Str("user"), value |-> Str("2")])
CookieBogusSameSite ==
  JObj([name |-> Str("b"), value |-> Str("3"), sameSite |-> Str("Bogus")])
CookieEmptySameSite ==
  JObj([name |-> Str("e"), value |-> Str("4"), sameSite |-> Str("")])
CookieNoValue == JObj([name |-> Str("n")])
Entries ==
  {CookieLax, CookiePlain, CookieBogusSameSite, CookieEmptySameSite,
   CookieNoValue, JNull, Str("x")}
EntryLists == UNION {[1..n -> Entries] : n \in 0..MaxCookies}

\* Stored documents: cookies at xpto.cookies, and documents without them.
DocWith(list) == JObj([xpto |-> JObj([cookies |-> JArr(list)])])
OtherDocs ==
  { JObj([different |-> JObj([path |-> JArr(<<>>)])]),
    JObj([xpto |-> JObj([cookies |-> Str("x")])]),
    JObj([xpto |-> JNull]),
    JNull }
StoredValues ==
  {JNull, StoredText("", FALSE, JNull),
   StoredText("invalid_json_format", FALSE, JNull)}
    \cup {StoredText("json", TRUE, d) :
            d \in OtherDocs \cup {DocWith(l) : l \in EntryLists}}

KeyArgs == {Undef, Str(""), Str("test_cookies")}
PathEnv == {Undef, Str(""), Str("xpto.cookies")}

\* path.split('.')
Split(path) ==
  IF path = "xpto.cookies" THEN <<"xpto", "cookies">> ELSE <<path>>

\* `part in current`, for the parts of the paths above (no array index).
In(part, v) == v.t = "object" /\ part \in DOMAIN v.fields

\* extractCookiesFromPath: the walk along the path.
RECURSIVE Navigate(_, _)
Navigate(current, parts) ==
  IF parts = <<>> THEN [found |-> TRUE, value |-> current]
  ELSE IF Truthy(current) /\ current.t \in {"object", "array"}
            /\ In(Head(parts), current)
    THEN Navigate(current.fields[Head(parts)], Tail(parts))
  ELSE [found |-> FALSE, value |-> JNull]

\* extractCookiesFromPath: the filter and the map.
SameSiteValues == {Str("Strict"), Str("Lax"), Str("None")}
IsCookie(cookie) ==
  /\ Truthy(cookie)
  /\ cookie.t \in {"object", "array"}
  /\ In("name", cookie) /\ In("value", cookie)
WithoutSameSite(cookie) ==
  IF /\ "sameSite" \in DOMAIN cookie.fields
     /\ Truthy(cookie.fields.sameSite)
     /\ cookie.fields.sameSite \notin SameSiteValues
    THEN JObj([k \in DOMAIN cookie.fields \ {"sameSite"} |-> cookie.fields[k]])
  ELSE cookie
extractCookiesFromPath(jsonData, path) ==
  LET at == Navigate(jsonData, Split(path))
  IN IF ~at.found \/ at.value.t # "array" THEN <<>>
     ELSE LET kept == SelectSeq(at.value.items, IsCookie)
          IN [i \in 1..Len(kept) |-> WithoutSameSite(kept[i])]

\* error instanceof Error ? error.message : String(error)
ErrorMessage(error) ==
  IF error.kind = "Error" THEN error.message ELSE <<"thrown value">>
LoadCatch(error) ==
  createErrorResponse(<<"Failed to load cookies from Redis: ">>
                        \o ErrorMessage(error))
LoadSuccess(cookies, key, path) ==
  createSuccessResponse(
    << <<"Successfully loaded ", ToString(Len(cookies)),
         " cookies from Redis key: ", key, ", path: ", path>> >>)

\* The operation from its call to the await of connect.  createClient is
\* called outside the try block: a value it throws leaves the operation.
CreateAndConnect(created) ==
  IF created.kind = "ok"
    THEN Awaits(<<Call("createClient", <<>>), Call("connect", <<>>)>>)
  ELSE Throws(created, <<Call("createClient", <<>>)>>)
LoadBodyPathFirst(key, path, created) ==
  IF ~Truthy(path)
    THEN Returns(createErrorResponse(
                   <<"REDIS_PATH environment variable is required">>), <<>>)
  ELSE IF ~Truthy(key)
    THEN Returns(createErrorResponse(<<"redis_key parameter is required">>),
                 <<>>)
  ELSE CreateAndConnect(created)
LoadBody(key, path, created) ==
  IF ~Truthy(key)
    THEN Returns(createErrorResponse(<<"redis_key parameter is required">>),
                 <<>>)
  ELSE IF ~Truthy(path)
    THEN Returns(createErrorResponse(
                   <<"REDIS_PATH environment variable is required">>), <<>>)
  ELSE CreateAndConnect(created)

\* The operation from the value redisClient.get resolved to: the response of
\* the try block, or the await of addCookies.
AfterGet(key, path, jsonString) ==
  IF ~Truthy(jsonString)
    THEN Returns(createErrorResponse(<<"No data found for key: ", key>>), <<>>)
  ELSE IF JSONparse(jsonString).throws
    THEN Returns(createErrorResponse(<<"Invalid JSON format for key: ", key>>),
                 <<>>)
  ELSE IF Len(extractCookiesFromPath(JSONparse(jsonString).value, path)) = 0
    THEN Returns(createErrorResponse(
                   <<"No cookies found at path: ", path, " for key: ", key>>),
                 <<>>)
  ELSE Awaits(<<Call("addCookies",
                     <<ToString(Len(extractCookiesFromPath(
                                      JSONparse(jsonString).value, path)))>>)>>)

\* The finally block: disconnect is awaited, its failure only logged.
Disconnect == <<Call("disconnect", <<>>)>>
AfterDisconnectFailing(pending, outcome) ==
  IF outcome.kind = "ok" THEN pending ELSE LoadCatch(outcome)
AfterDisconnect(pending, outcome) == pending

\* ------------------------------------------------------------------ state
VARIABLES
  pc,        \* where each invocation of execute stands
  args,      \* its request
  page,      \* whether its context has an active page
  calls,     \* the calls it has made, in program order
  resp,      \* the response it returned
  wait,      \* the download-event wait it registered (its downloadPromise)
  saving,    \* the download it is saving, and where
  downloads, \* this.downloads, the registry
  dirs,      \* the directories that exist
  now,       \* the clock
  trigAt,    \* when its trigger action was started, -1 before
  trigDone,  \* when its trigger action completed, -1 before
  evAt,      \* when the download its trigger causes was emitted, -1 before
  unhandled, \* whether a promise it made was rejected with no handler
  settled,   \* what its trigger action, saveAs, statSync, notification came to
  loader     \* an invocation of LoadCookiesTool.execute

vars == <<pc, args, page, calls, resp, wait, saving, downloads, dirs, now,
          trigAt, trigDone, evAt, unhandled, settled, loader>>

NoDownload == [cause |-> "", suggested |-> "", url |-> ""]
Download(p, suggested) ==
  [cause |-> p, suggested |-> suggested, url |-> "https://x/" \o p]
NoWait ==
  [status |-> "none", timeout |-> 0, deadline |-> 0, download |-> NoDownload]
NoSaving == [download |-> NoDownload, savePath |-> <<>>]
EmptyRegistry == [n \in {} |-> UndefinedInfo]
NoOutcome == [kind |-> "none", message |-> <<>>]
NoStat == [ok |-> FALSE, size |-> -1]
Unsettled ==
  [trigger |-> NoOutcome, save |-> NoOutcome, stat |-> NoStat,
   notify |-> NoOutcome]

\* LoadCookiesTool before execute is called.
NoLoad ==
  [pc |-> "idle", key |-> Undef, path |-> Undef, page |-> FALSE,
   calls |-> <<>>, pending |-> NoResponse, resp |-> NoResponse,
   given |-> <<>>, stored |-> JNull, added |-> NoOutcome]


Init ==
  /\ pc = [p \in Invocations |-> "idle"]
  /\ args = [p \in Invocations |-> NoArgs]
  /\ page = [p \in Invocations |-> FALSE]
  /\ calls = [p \in Invocations |-> <<>>]
  /\ resp = [p \in Invocations |-> NoResponse]
  /\ wait = [p \in Invocations |-> NoWait]
  /\ saving = [p \in Invocations |-> NoSaving]
  /\ downloads = EmptyRegistry
  /\ dirs \in {{}, {defaultDownloadsPath}}
  /\ now = 0
  /\ trigAt = [p \in Invocations |-> -1]
  /\ trigDone = [p \in Invocations |-> -1]
  /\ evAt = [p \in Invocations |-> -1]
  /\ unhandled = [p \in Invocations |-> FALSE]
  /\ settled = [p \in Invocations |-> Unsettled]
  /\ loader = NoLoad

Made(cs, op) == \E i \in DOMAIN cs : cs[i].op = op

\* The state of invocation p after a run r of its operation; next is where
\* it stands if the run suspended.  A run that throws past safeExecute
\* rejects the promise execute returned.
Advance(p, r, next) ==
  /\ pc' = [pc EXCEPT ![p] = CASE r.outcome = "await" -> next
                                [] r.outcome = "throw" -> "threw"
                                [] OTHER -> "done"]
  /\ resp' = [resp EXCEPT ![p] = r.resp]
  /\ calls' = [calls EXCEPT ![p] = @ \o r.calls]

\* execute(args, context), to the await of the trigger action.
execute(p, D) ==
  /\ pc[p] = "idle"
  /\ \E a \in D.args, hasPage \in D.pages, mk \in D.outcomes :
       LET r == safeExecute(hasPage, ExecuteBody(a, DirOf(a) \in dirs, mk))
       IN /\ Advance(p, r, "awaitTrigger")
          /\ args' = [args EXCEPT ![p] = a]
          /\ page' = [page EXCEPT ![p] = hasPage]
          /\ dirs' = IF Made(r.calls, "mkdirSync") /\ mk.kind = "ok"
                       THEN dirs \cup {DirOf(a)} ELSE dirs
          /\ wait' = [wait EXCEPT ![p] =
                        IF Made(r.calls, "waitForEvent")
                          THEN [status |-> "armed", timeout |-> TimeoutOf(a),
                                deadline |-> now + TimeoutOf(a),
                                download |-> NoDownload]
                        ELSE @]
          /\ trigAt' = [trigAt EXCEPT ![p] =
                          IF r.outcome = "await" THEN now ELSE @]
  /\ UNCHANGED <<loader, saving, downloads, now, trigDone, evAt, unhandled, settled>>

\* The trigger action (click, evaluate, press) settles: the operation goes
\* on to await the download promise, or to its catch block.
TriggerSettles(p, D) ==
  /\ pc[p] = "awaitTrigger"
  /\ \E o \in D.outcomes :
       LET r == IF o.kind = "ok" THEN Awaits(<<>>)
                ELSE safeExecute(TRUE, Caught(o, TimeoutOf(args[p]), <<>>))
       IN /\ Advance(p, r, "awaitDownload")
          /\ trigDone' = [trigDone EXCEPT ![p] = IF o.kind = "ok" THEN now ELSE @]
          /\ settled' = [settled EXCEPT ![p].trigger = o]
  /\ UNCHANGED <<loader, args, page, wait, saving, downloads, dirs, now, trigAt, evAt,
                 unhandled>>

\* The browser emits the download that p's trigger causes, with some
\* suggested filename: every wait armed on the page resolves with it.
DownloadEvent(p, D) ==
  /\ trigAt[p] >= 0
  /\ evAt[p] < 0
  /\ \E s \in D.suggested :
       wait' = [q \in Invocations |->
                  IF wait[q].status = "armed"
                    THEN [wait[q] EXCEPT !.status = "resolved",
                                         !.download = Download(p, s)]
                  ELSE wait[q]]
  /\ evAt' = [evAt EXCEPT ![p] = now]
  /\ UNCHANGED <<loader, pc, args, page, calls, resp, saving, downloads, dirs, now,
                 trigAt, trigDone, unhandled, settled>>

\* The timeout of p's wait expires: the promise is rejected with a
\* TimeoutError, handled only if p is awaiting it.
WaitExpires(p) ==
  /\ wait[p].status = "armed"
  /\ now >= wait[p].deadline
  /\ wait' = [wait EXCEPT ![p].status = "rejected"]
  /\ unhandled' = [unhandled EXCEPT ![p] = @ \/ pc[p] # "awaitDownload"]
  /\ UNCHANGED <<loader, pc, args, page, calls, resp, saving, downloads, dirs, now,
                 trigAt, trigDone, evAt, settled>>

\* await downloadPromise yields the download: the operation names the file
\* and starts saving it.
DownloadObserved(p) ==
  /\ pc[p] = "awaitDownload"
  /\ wait[p].status = "resolved"
  /\ LET r == SaveRun(args[p], wait[p].download, now)
     IN /\ Advance(p, r, "awaitSave")
        /\ saving' = [saving EXCEPT ![p] =
                        [download |-> wait[p].download,
                         savePath |-> r.calls[1].arg]]
  /\ wait' = [wait EXCEPT ![p].status = "observed"]
  /\ UNCHANGED <<loader, args, page, downloads, dirs, now, trigAt, trigDone, evAt,
                 unhandled, settled>>

\* await downloadPromise throws the TimeoutError: the catch block runs.
TimeoutError == Err(<<"Timeout", " waiting for download">>)
TimeoutObserved(p) ==
  /\ pc[p] = "awaitDownload"
  /\ wait[p].status = "rejected"
  /\ Advance(p, safeExecute(TRUE, Caught(TimeoutError, TimeoutOf(args[p]),
                                         <<>>)), "done")
  /\ wait' = [wait EXCEPT ![p].status = "observed"]
  /\ UNCHANGED <<loader, args, page, saving, downloads, dirs, now, trigAt, trigDone,
                 evAt, unhandled, settled>>

\* download.saveAs settles: the operation records the download and answers,
\* or goes to its catch block.
SaveSettles(p, D) ==
  /\ pc[p] = "awaitSave"
  /\ \E o \in D.outcomes, st \in D.stats, nt \in D.notify :
       LET info == DownloadInfo(args[p], saving[p].download,
                                saving[p].savePath, now, st)
           r == IF o.kind = "ok"
                  THEN safeExecute(TRUE, RecordRun(args[p], info, nt))
                ELSE safeExecute(TRUE, Caught(o, TimeoutOf(args[p]), <<>>))
       IN /\ Advance(p, r, "done")
          /\ downloads' =
               IF Made(r.calls, "downloads.set")
                 THEN MapSet(downloads, info.name, info)
               ELSE downloads
          /\ settled' = [settled EXCEPT ![p] =
                           IF o.kind = "ok"
                             THEN [@ EXCEPT !.save = o, !.stat = st,
                                            !.notify = nt]
                           ELSE [@ EXCEPT !.save = o]]
          /\ unhandled' = [unhandled EXCEPT ![p] =
                             @ \/ (o.kind = "ok" /\ nt.kind = "rejects")]
  /\ UNCHANGED <<loader, args, page, wait, saving, dirs, now, trigAt, trigDone, evAt>>

\* getDownloads() returns the Map itself, getDownload(name) its entry.
getDownloads == downloads
getDownload(name) == MapGet(downloads, name)

\* clearDownloads()
clearDownloads ==
  /\ downloads' = MapClear(downloads)
  /\ UNCHANGED <<loader, pc, args, page, calls, resp, wait, saving, dirs, now, trigAt,
                 trigDone, evAt, unhandled, settled>>

\* A continuation that is ready runs before the clock moves.
Ready(p) ==
  pc[p] = "awaitDownload" /\ wait[p].status \in {"resolved", "rejected"}
Pending(p) ==
  \/ pc[p] \notin {"idle", "done"}
  \/ wait[p].status = "armed"
  \/ trigAt[p] >= 0 /\ evAt[p] < 0
ArmedDeadlines == {wait[p].deadline : p \in {q \in Invocations : wait[q].status = "armed"}}

\* Time passes, one tick or up to the next deadline, never past the
\* deadline of an armed wait.
Tick(D) ==
  /\ \E p \in Invocations : Pending(p)
  /\ \A p \in Invocations : ~Ready(p)
  /\ \A d \in ArmedDeadlines : d > now
  /\ \E t \in {now + 1} \cup ArmedDeadlines :
       /\ t > now
       /\ t <= D.ticks \/ t \in ArmedDeadlines
       /\ \A d \in ArmedDeadlines : t <= d
       /\ now' = t
  /\ UNCHANGED <<loader, pc, args, page, calls, resp, wait, saving, downloads, dirs,
                 trigAt, trigDone, evAt, unhandled, settled>>

\* A caller of getDownloads() holds what it returned, the Map object of the
\* registry itself and no copy, and writes to it: set, delete or clear on
\* the returned object are writes to this.downloads.
RegistryObject == "this.downloads"
ReturnedObject == RegistryObject
ForgedInfo ==
  [name |-> "forged", originalFilename |-> "", savePath |-> <<>>,
   timestamp |-> 0, url |-> "", hasSize |-> FALSE, size |-> 0]
CallerWrites ==
  /\ \E n \in Names :
       \E written \in {MapSet(getDownloads, n, ForgedInfo),
                       MapDelete(getDownloads, n), MapClear(getDownloads)} :
         downloads' = IF ReturnedObject = RegistryObject THEN written
                      ELSE downloads
  /\ UNCHANGED <<loader, pc, args, page, calls, resp, wait, saving, dirs, now, trigAt,
                 trigDone, evAt, unhandled, settled>>

\* One invocation, with every input and every behaviour of the collaborators.
Next ==
  \/ execute("i1", Full)
  \/ TriggerSettles("i1", Full)
  \/ DownloadEvent("i1", Full)
  \/ WaitExpires("i1")
  \/ DownloadObserved("i1")
  \/ TimeoutObserved("i1")
  \/ SaveSettles("i1", Full)
  \/ clearDownloads
  \/ Tick(Full)

Spec == Init /\ [][Next]_vars

\* The event loop runs every continuation that is ready, timers fire, and
\* the trigger action and saveAs settle; whether the browser ever emits a
\* download is left open.
Fairness ==
  /\ WF_vars(TriggerSettles("i1", Full))
  /\ WF_vars(WaitExpires("i1"))
  /\ WF_vars(DownloadObserved("i1"))
  /\ WF_vars(TimeoutObserved("i1"))
  /\ WF_vars(SaveSettles("i1", Full))
  /\ WF_vars(Tick(Full))
SpecLive == Spec /\ Fairness

\* Two invocations on the one tool instance and page, in any interleaving.
NextPair ==
  \/ \E p \in Invocations : execute(p, Pair)
  \/ \E p \in Invocations : TriggerSettles(p, Pair)
  \/ \E p \in Invocations : DownloadEvent(p, Pair)
  \/ \E p \in Invocations : WaitExpires(p)
  \/ \E p \in Invocations : DownloadObserved(p)
  \/ \E p \in Invocations : TimeoutObserved(p)
  \/ \E p \in Invocations : SaveSettles(p, Pair)
  \/ clearDownloads
  \/ Tick(Pair)

SpecPair == Init /\ [][NextPair]_vars

\* One invocation, and a caller that writes to what getDownloads() returned.
NextCaller ==
  \/ execute("i1", Pair)
  \/ TriggerSettles("i1", Pair)
  \/ DownloadEvent("i1", Pair)
  \/ WaitExpires("i1")
  \/ DownloadObserved("i1")
  \/ TimeoutObserved("i1")
  \/ SaveSettles("i1", Pair)
  \/ clearDownloads
  \/ CallerWrites
  \/ Tick(Pair)

SpecCaller == Init /\ [][NextCaller]_vars

\* ------------------------------------------- LoadCookiesTool.execute
\* The state of DownloadTool, which LoadCookiesTool leaves alone.
downloadVars ==
  <<pc, args, page, calls, resp, wait, saving, downloads, dirs, now, trigAt,
    trigDone, evAt, unhandled, settled>>

\* The try block is left: the response is held while the finally block
\* awaits redisClient.disconnect().
EntersFinally(pending, made) ==
  [loader EXCEPT !.pc = "disconnect", !.pending = pending,
                 !.calls = loader.calls \o made \o Disconnect]

\* execute is called: the page check, the two validations, createClient and
\* the call of connect; created is what createClient comes to.
executeLoadCookies ==
  /\ loader.pc = "idle"
  /\ \E key \in KeyArgs, path \in PathEnv, hasPage \in BOOLEAN,
        created \in Outcomes :
       LET r == safeExecute(hasPage, LoadBody(key, path, created))
       IN loader' =
            IF r.outcome = "return"
              THEN [loader EXCEPT !.pc = "done", !.key = key, !.path = path,
                                  !.page = hasPage, !.resp = r.resp,
                                  !.calls = r.calls]
            ELSE [loader EXCEPT !.pc = "connect", !.key = key, !.path = path,
                                !.page = hasPage, !.calls = r.calls]
  /\ UNCHANGED downloadVars

\* redisClient.connect() settles: get is called, or the catch block answers.
ConnectSettles ==
  /\ loader.pc = "connect"
  /\ \E o \in Outcomes :
       loader' =
         IF o.kind = "ok"
           THEN [loader EXCEPT !.pc = "get",
                   !.calls = @ \o <<Call("get", <<loader.key.s>>)>>]
         ELSE EntersFinally(LoadCatch(o), <<>>)
  /\ UNCHANGED downloadVars

\* redisClient.get settles: the value is parsed and the cookies extracted;
\* addCookies is called, or the try block answers.
GetSettles ==
  /\ loader.pc = "get"
  /\ \E o \in Outcomes, jsonString \in StoredValues :
       LET r == AfterGet(loader.key.s, loader.path.s, jsonString)
       IN loader' =
            IF o.kind # "ok" THEN EntersFinally(LoadCatch(o), <<>>)
            ELSE IF r.outcome = "return"
              THEN [EntersFinally(r.resp, r.calls)
                      EXCEPT !.stored = jsonString]
            ELSE [loader EXCEPT
                    !.pc = "add", !.stored = jsonString,
                    !.calls = @ \o r.calls,
                    !.given = extractCookiesFromPath(
                                JSONparse(jsonString).value, loader.path.s)]
  /\ UNCHANGED downloadVars

\* page.context().addCookies(cookies) settles.
AddSettles ==
  /\ loader.pc = "add"
  /\ \E o \in Outcomes :
       loader' =
         [(IF o.kind = "ok"
             THEN EntersFinally(
                    LoadSuccess(loader.given, loader.key.s, loader.path.s),
                    <<>>)
           ELSE EntersFinally(LoadCatch(o), <<>>))
            EXCEPT !.added = o]
  /\ UNCHANGED downloadVars

\* redisClient.disconnect() settles: a failure is logged, and the response
\* of the try or catch block is returned.
DisconnectSettles ==
  /\ loader.pc = "disconnect"
  /\ \E o \in Outcomes :
       loader' =
         [loader EXCEPT
            !.pc = "done",
            !.resp = AfterDisconnect(loader.pending, o),
            !.calls = IF o.kind = "ok" THEN @
                      ELSE @ \o <<Call("console.warn", <<>>)>>]
  /\ UNCHANGED downloadVars

NextCookies ==
  \/ executeLoadCookies
  \/ ConnectSettles
  \/ GetSettles
  \/ AddSettles
  \/ DisconnectSettles

SpecCookies == Init /\ [][NextCookies]_vars

\* ------------------------------------------------------------- properties
Returned(p) == pc[p] = "done"
TriggerOps == {"click", "evaluate", "press"}
ErrorWith(p, text) == resp[p] = createErrorResponse(text)
IsTimeoutResponse(p) ==
  /\ resp[p].isError
  /\ Len(resp[p].content) = 1
  /\ resp[p].content[1][1] = "Download timeout after "
\* The wait's timeout expired; the invocation's await met the expiry.
WaitExpired(p) ==
  \/ wait[p].status = "rejected"
  \/ wait[p].status = "observed" /\ wait[p].download = NoDownload
ExpiryObserved(p) ==
  wait[p].status = "observed" /\ wait[p].download = NoDownload
NoSideEffect(p) ==
  calls[p] = <<>> /\ wait[p].status = "none" /\ trigAt[p] < 0

\* C1: in every invocation that starts a trigger action (click, evaluate,
\* press), the download-event wait of that invocation was registered before
\* the trigger action was started.
C1_WaitRegisteredBeforeTrigger ==
  \A p \in Invocations :
    /\ trigAt[p] >= 0 => wait[p].status # "none"
    /\ \A i \in DOMAIN calls[p] :
         calls[p][i].op \in TriggerOps =>
           \E j \in 1..(i - 1) : calls[p][j].op = "waitForEvent"
C1_Witness ==
  \E p \in Invocations :
    pc[p] = "awaitTrigger" /\ Made(calls[p], "press") /\ wait[p].status = "armed"

\* C2: when execute has returned, by any path, no download-event wait that
\* the invocation registered is still armed, or settled with its outcome
\* unobserved.
C2_NoWaitLeftDangling ==
  \A p \in Invocations :
    Returned(p) => wait[p].status \in {"none", "observed"}

\* C3: the timeout counts from the completion of the trigger action: a
\* download event that occurs less than `timeout` after the trigger action
\* completed is captured by the invocation's wait, and the wait does not
\* expire on the invocation when a download event arrived that soon.
C3_TimeoutCountsFromTrigger ==
  \A p \in Invocations :
    (trigDone[p] >= 0 /\ evAt[p] >= 0
       /\ evAt[p] < trigDone[p] + TimeoutOf(args[p]))
    => /\ wait[p].download.cause = p
       /\ ~ExpiryObserved(p)

\* C4: the response begins 'Download timeout after' if and only if the
\* download-event wait expired; a failure of the trigger action or of the
\* save never yields the timeout message.
C4_TimeoutTextOnlyOnExpiry ==
  \A p \in Invocations :
    Returned(p) => /\ IsTimeoutResponse(p) => WaitExpired(p)
                   /\ ExpiryObserved(p) => IsTimeoutResponse(p)

\* C5: the response is a success if and only if the invocation wrote a
\* record into the registry; an invocation that returns an error has not
\* changed the registry.
C5_SuccessIffRecorded ==
  \A p \in Invocations :
    Returned(p) => (~resp[p].isError <=> Made(calls[p], "downloads.set"))

\* C6: nothing escapes execute: no invocation ends by throwing and none
\* leaves a promise rejected with no handler.
C6_NothingEscapes ==
  \A p \in Invocations : pc[p] # "threw" /\ ~unhandled[p]

\* C7: a request whose trigger is present but invalid (neither string nor
\* object) or unsupported is answered with no side effect: no directory
\* check or creation, no wait registered, no trigger started.
BadTriggerShape(a) == Truthy(a.trigger) /\ executeTrigger(a.trigger).throws
C7_ShapeErrorHasNoSideEffect ==
  \A p \in Invocations :
    (Returned(p) /\ page[p] /\ Truthy(args[p].name)
       /\ BadTriggerShape(args[p]))
    => NoSideEffect(p)

\* C8 as stated: every request with a missing or empty name (respectively a
\* missing trigger) is answered 'Missing required parameter: name'
\* (respectively 'trigger'), with no side effect.
MissingParameterAnswer(p) ==
  /\ ~Truthy(args[p].name) =>
       ErrorWith(p, <<"Missing required parameter: name">>) /\ NoSideEffect(p)
  /\ (Truthy(args[p].name) /\ args[p].trigger = Undef) =>
       ErrorWith(p, <<"Missing required parameter: trigger">>) /\ NoSideEffect(p)
C8_MissingParameterAlways ==
  \A p \in Invocations : Returned(p) => MissingParameterAnswer(p)
\* C8 as amended: the same, for every request made with an active page.
C8_MissingParameterWithPage ==
  \A p \in Invocations : (Returned(p) /\ page[p]) => MissingParameterAnswer(p)
C8_Witness ==
  \E p \in Invocations :
    Returned(p) /\ page[p] /\ args[p].name = Str("")
      /\ args[p].trigger = Str("#btn")

\* C9: the checks apply in the order page, name, trigger present, trigger
\* shape: when several are violated (the first of them is then the page or
\* the name check) the error is that of the first, a missing trigger comes
\* before its shape, and with no page no wait is registered.
C9_ValidationOrder ==
  \A p \in Invocations :
    Returned(p) =>
      /\ ~page[p] => resp[p] = PageError /\ NoSideEffect(p)
      /\ (page[p] /\ ~Truthy(args[p].name)) =>
           ErrorWith(p, <<"Missing required parameter: name">>)
      /\ (page[p] /\ Truthy(args[p].name) /\ ~Truthy(args[p].trigger)) =>
           ErrorWith(p, <<"Missing required parameter: trigger">>)
C9_Witness ==
  \E p \in Invocations :
    Returned(p) /\ page[p] /\ args[p].name = Undef /\ args[p].trigger = Undef

\* C10: the timeout used is the configured one: when the request supplies a
\* number, the bound of the wait and the number in the timeout message are
\* that number, and 30000 is used only when the request gives no timeout.
C10_TimeoutAsConfigured ==
  \A p \in Invocations :
    wait[p].status # "none" =>
      /\ args[p].timeout.t = "number" =>
           /\ wait[p].timeout = args[p].timeout.n
           /\ (Returned(p) /\ IsTimeoutResponse(p)) =>
                resp[p].content[1][2] = ToString(args[p].timeout.n)
      /\ wait[p].timeout = DefaultTimeout => args[p].timeout = Undef

\* An invocation has returned a success response; it returns one in this step.
Succeeded(p) == Returned(p) /\ ~resp[p].isError
Succeeds(p) == pc[p] = "awaitSave" /\ pc'[p] = "done" /\ ~resp'[p].isError
NameOf(p) == args[p].name.s
\* The calls of an invocation on the given operations, in order.
CallsOn(p, ops) == SelectSeq(calls[p], LAMBDA c : c.op \in ops)

\* C11: two invocations with different names do not corrupt the registry:
\* when one returns success while the record of the other, which returned
\* success before, is in the registry, afterwards the registry holds a record
\* under each of the two names, the earlier one untouched, and every record
\* carries the name it is stored under.
C11_BothRecordsPresent ==
  [][\A p \in Invocations : \A q \in Invocations \ {p} :
       (Succeeds(p) /\ Succeeded(q) /\ NameOf(q) # NameOf(p)
          /\ NameOf(q) \in DOMAIN downloads)
       => /\ {NameOf(p), NameOf(q)} \subseteq DOMAIN downloads'
          /\ MapGet(downloads', NameOf(q)) = MapGet(downloads, NameOf(q))
          /\ \A n \in DOMAIN downloads' : downloads'[n].name = n]_vars
\* Both were in flight at the same time, and both records are there.
C11_Witness ==
  /\ Succeeded("i1") /\ Succeeded("i2") /\ NameOf("i1") # NameOf("i2")
  /\ trigAt["i2"] < trigDone["i1"] /\ trigAt["i1"] < trigDone["i2"]
  /\ getDownload(NameOf("i1")).name = NameOf("i1")
  /\ getDownload(NameOf("i2")).name = NameOf("i2")

\* C12: when an invocation with name n returns success, getDownload(n) is a
\* record whose name is n, whose originalFilename is the filename the browser
\* suggested for the download it saved ('downloaded-file' when it suggested
\* none) and whose url is that download's URL, and getDownloads() has key n.
C12_RecordAfterSuccess ==
  [][\A p \in Invocations :
       Succeeds(p) =>
         /\ NameOf(p) \in DOMAIN getDownloads'
         /\ MapGet(downloads', NameOf(p)).name = NameOf(p)
         /\ MapGet(downloads', NameOf(p)).originalFilename =
              (IF saving[p].download.suggested = "" THEN "downloaded-file"
               ELSE saving[p].download.suggested)
         /\ MapGet(downloads', NameOf(p)).url = saving[p].download.url]_vars
C12_Witness ==
  \E p \in Invocations :
    /\ Succeeded(p) /\ saving[p].download.suggested = ""
    /\ getDownload(NameOf(p)).originalFilename = "downloaded-file"
    /\ getDownload(NameOf(p)).url = saving[p].download.url

\* C13: when an invocation returns success with a name that is already in the
\* registry, the size of the registry does not change and the record under
\* that name is, field by field, that of the latest download: its
\* originalFilename, url, savePath, timestamp and size (no size when its
\* stat failed, whatever the earlier record had).
LatestRecord(p) ==
  [name |-> NameOf(p),
   originalFilename |-> IF saving[p].download.suggested = ""
                          THEN "downloaded-file"
                        ELSE saving[p].download.suggested,
   savePath |-> saving[p].savePath, timestamp |-> now,
   url |-> saving[p].download.url,
   hasSize |-> settled'[p].stat.ok, size |-> settled'[p].stat.size]
C13_OverwriteWholesale ==
  [][\A p \in Invocations :
       (Succeeds(p) /\ NameOf(p) \in DOMAIN downloads)
       => /\ MapSize(downloads') = MapSize(downloads)
          /\ MapGet(downloads', NameOf(p)) = LatestRecord(p)]_vars
\* i2 returned after i1, under the same name: the one record is i2's, with
\* no size, where i1's record had one.
C13_Witness ==
  /\ Succeeded("i1") /\ Succeeded("i2") /\ NameOf("i1") = NameOf("i2")
  /\ settled["i1"].stat.ok /\ ~settled["i2"].stat.ok
  /\ saving["i1"].savePath # saving["i2"].savePath
  /\ MapSize(downloads) = 1
  /\ getDownload(NameOf("i2")).savePath = saving["i2"].savePath
  /\ ~getDownload(NameOf("i2")).hasSize

\* C14: every call of clearDownloads leaves the registry empty, whatever it
\* held (the records of several downloads, one, or none, as after a previous
\* clearDownloads): getDownloads().size is 0 and getDownload(n) is undefined
\* for every n.
C14_ClearEmpties ==
  [][clearDownloads =>
       /\ MapSize(getDownloads') = 0
       /\ \A n \in Names : MapGet(downloads', n) = UndefinedInfo]_vars
C14_Witness ==
  /\ Succeeded("i1") /\ Succeeded("i2") /\ NameOf("i1") # NameOf("i2")
  /\ MapSize(getDownloads) = 0
  /\ \A n \in Names : getDownload(n) = UndefinedInfo

Failed(o) == o.kind \notin {"none", "ok", "rejects"}
ListChanged == Call("notification", <<"notifications/resources/list_changed">>)
\* How an invocation that returned an error ended.
ValidationEnd(p) == ~Truthy(args[p].name) \/ ~Truthy(args[p].trigger)
TriggerEnd(p) == BadTriggerShape(args[p]) \/ Failed(settled[p].trigger)
SaveEnd(p) == Failed(settled[p].save)

\* C15: an invocation that has returned a success response made exactly one
\* call of server.notification, with 'notifications/resources/list_changed',
\* after its downloads.set and as its last call; an invocation that ended in
\* a validation, trigger, timeout or save error made none.
C15_OneNotificationOnSuccess ==
  \A p \in Invocations :
    Returned(p) =>
      /\ ~resp[p].isError =>
           /\ CallsOn(p, {"notification"}) = <<ListChanged>>
           /\ calls[p][Len(calls[p])] = ListChanged
           /\ \E i \in 1..(Len(calls[p]) - 1) : calls[p][i].op = "downloads.set"
      /\ (resp[p].isError
            /\ (ValidationEnd(p) \/ TriggerEnd(p) \/ ExpiryObserved(p)
                  \/ SaveEnd(p)))
         => CallsOn(p, {"notification"}) = <<>>
C15_Witness ==
  \E p \in Invocations :
    Succeeded(p) /\ Made(calls[p], "notification")
      /\ NameOf(p) \in DOMAIN downloads

\* C16: when statSync throws, the invocation still returns a success
\* response, none of whose entries mentions the file size, its record is in
\* the registry without a size, and the notification was sent.
StatFailed(p) == settled[p].stat = [ok |-> FALSE, size |-> 0]
MentionsSize(p) ==
  \E i \in DOMAIN resp[p].content : resp[p].content[i][1] = "File size: "
C16_StatFailureNotFatal ==
  \A p \in Invocations :
    (Returned(p) /\ StatFailed(p)) =>
      /\ ~resp[p].isError
      /\ ~MentionsSize(p)
      /\ Made(calls[p], "downloads.set") /\ Made(calls[p], "notification")
      /\ NameOf(p) \in DOMAIN downloads => ~getDownload(NameOf(p)).hasSize

\* C17: when statSync gives the size s, the record's size is s and the
\* success response has the entry 'File size: ' with s formatted ('1 KB' for
\* 1024, '0 Bytes' for 0, '1.5 KB' for 1536); a success response lacks the
\* entry only when statSync threw.
SizeEntry(s) ==
  CASE s = 0 -> <<"File size: ", "0 Bytes">>
    [] s = KiB -> <<"File size: ", "1", " ", "KB">>
    [] s = KiB + 512 -> <<"File size: ", "1", ".", "5", " ", "KB">>
    [] OTHER -> <<"File size: ">>
HasEntry(p, text) == \E i \in DOMAIN resp[p].content : resp[p].content[i] = text
C17_SizeReported ==
  \A p \in Invocations :
    Succeeded(p) =>
      /\ settled[p].stat.ok =>
           /\ HasEntry(p, SizeEntry(settled[p].stat.size))
           /\ NameOf(p) \in DOMAIN downloads =>
                /\ getDownload(NameOf(p)).hasSize
                /\ getDownload(NameOf(p)).size = settled[p].stat.size
      /\ ~MentionsSize(p) => StatFailed(p)

\* C18: on an active page, with a name, and once the downloads directory is
\* there, a trigger that is present but neither a string nor an object is
\* answered with an error containing 'Invalid trigger parameter', a trigger
\* object of another type than click, evaluate, keyboard, or without the
\* payload of its type, with one containing 'Unsupported trigger type'; in
\* both cases no click, evaluate or press is made.
InvalidTrigger(t) == Truthy(t) /\ t.t \notin {"string", "object"}
UnsupportedTrigger(t) ==
  /\ t.t = "object"
  /\ ~(t.type = "click" /\ t.selector # "")
  /\ ~(t.type = "evaluate" /\ t.script # "")
  /\ ~(t.type = "keyboard" /\ t.keys # "")
ErrorContaining(p, fragment) ==
  /\ resp[p].isError
  /\ Len(resp[p].content) = 1
  /\ Includes(resp[p].content[1], fragment)
C18_TriggerShapesClassified ==
  \A p \in Invocations :
    (Returned(p) /\ Made(calls[p], "waitForEvent")) =>
      /\ InvalidTrigger(args[p].trigger) =>
           /\ ErrorContaining(p, "Invalid trigger parameter: ")
           /\ CallsOn(p, TriggerOps) = <<>>
      /\ UnsupportedTrigger(args[p].trigger) =>
           /\ ErrorContaining(p, "Unsupported trigger type: ")
           /\ CallsOn(p, TriggerOps) = <<>>

\* C19: an invocation makes at most one trigger call and registers at most
\* one wait, however it ends; once it has registered its wait, its trigger
\* calls are exactly the one of its trigger's variant: click(s) for the
\* string s, click(selector), evaluate(script) or press(keys) for an object.
DispatchOf(t) ==
  IF t.t = "string" THEN <<Call("click", <<t.s>>)>>
  ELSE IF InvalidTrigger(t) \/ UnsupportedTrigger(t) THEN <<>>
  ELSE CASE t.type = "click" -> <<Call("click", <<t.selector>>)>>
         [] t.type = "evaluate" -> <<Call("evaluate", <<t.script>>)>>
         [] t.type = "keyboard" -> <<Call("press", <<t.keys>>)>>
C19_DispatchOnceByVariant ==
  \A p \in Invocations :
    /\ Len(CallsOn(p, TriggerOps)) <= 1
    /\ Len(CallsOn(p, {"waitForEvent"})) <= 1
    /\ Made(calls[p], "waitForEvent") =>
         CallsOn(p, TriggerOps) = DispatchOf(args[p].trigger)
C19_Witness ==
  \E p \in Invocations :
    /\ Returned(p) /\ Failed(settled[p].trigger)
    /\ args[p].trigger = TrigObj("keyboard", "", "", "Control+S")
    /\ CallsOn(p, TriggerOps) = <<Call("press", <<"Control+S">>)>>

\* C20 as stated: when the trigger action fails with an Error of message m,
\* the text of the error response is m.
TriggerFailedWith(p) ==
  Returned(p) /\ settled[p].trigger.kind = "Error"
C20_TriggerMessageUnmodified ==
  \A p \in Invocations :
    TriggerFailedWith(p) =>
      resp[p] = createErrorResponse(settled[p].trigger.message)
\* C20 as amended: the text is 'Download failed: ' followed by m, and the
\* download-timeout text when m contains 'Timeout'.
C20_TriggerMessagePrefixed ==
  \A p \in Invocations :
    TriggerFailedWith(p) =>
      resp[p] = createErrorResponse(
                  IF Includes(settled[p].trigger.message, "Timeout")
                    THEN TimeoutText(TimeoutOf(args[p]))
                  ELSE <<"Download failed: ">> \o settled[p].trigger.message)
C20_Witness ==
  \E p \in Invocations :
    /\ TriggerFailedWith(p) /\ settled[p].trigger.message = <<"boom">>
    /\ resp[p] = createErrorResponse(<<"Download failed: ", "boom">>)

\* C23: the directory is ensured before the write: a step in which an
\* invocation calls download.saveAs starts with its downloads directory in
\* place, the existence check having been made earlier in the invocation;
\* and a step in which it calls mkdirSync, right after existsSync, starts
\* with the directory absent.
Calls(p, op) == Made(calls[p], op)
C23_DirectoryBeforeSave ==
  [][\A p \in Invocations :
       /\ (~Calls(p, "saveAs") /\ Made(calls'[p], "saveAs"))
            => DirOf(args[p]) \in dirs /\ Calls(p, "existsSync")
       /\ (~Calls(p, "mkdirSync") /\ Made(calls'[p], "mkdirSync"))
            => /\ DirOf(args'[p]) \notin dirs
               /\ calls'[p][1] = Call("existsSync", <<DirOf(args'[p])>>)
               /\ calls'[p][2] = Call("mkdirSync", <<DirOf(args'[p])>>)]_vars
\* The custom directory was absent, was created, and the file is saved in it.
C23_Witness ==
  \E p \in Invocations :
    /\ Calls(p, "mkdirSync") /\ Calls(p, "saveAs")
    /\ DirOf(args[p]) = CustomDir /\ CustomDir \in dirs

\* C24: with two invocations on the same page, each saves and records the
\* download its own trigger caused: no download is saved by two invocations
\* and none saves a download the other's trigger caused.
C24_OwnDownloadOnly ==
  \A p \in Invocations :
    saving[p].download # NoDownload =>
      /\ saving[p].download.cause = p
      /\ \A q \in Invocations \ {p} : saving[q].download # saving[p].download

\* C25: the registry changes only when a download completes and by clear:
\* a step that changes it is clearDownloads or the step of an invocation
\* whose saveAs has completed, which sets the entry of its name and leaves
\* every other entry as it was; an invocation that returns success has set
\* its entry; an entry goes away only by clearDownloads; and every entry's
\* key is its record's name.
SetsItsEntry(p) ==
  /\ pc[p] = "awaitSave" /\ settled'[p].save = Ok
  /\ DOMAIN downloads' = DOMAIN downloads \cup {NameOf(p)}
  /\ \A n \in DOMAIN downloads \ {NameOf(p)} : downloads'[n] = downloads[n]
C25_RegistryFrame ==
  [][/\ downloads' # downloads =>
          clearDownloads \/ \E p \in Invocations : SetsItsEntry(p)
     /\ \A p \in Invocations : Succeeds(p) => SetsItsEntry(p)
     /\ ~(DOMAIN downloads \subseteq DOMAIN downloads') => clearDownloads
     /\ \A n \in DOMAIN downloads' : downloads'[n].name = n]_vars
\* One invocation's save failed and left no entry; the other's is there.
C25_Witness ==
  \E p \in Invocations : \E q \in Invocations \ {p} :
    /\ Succeeded(p) /\ Returned(q) /\ Failed(settled[q].save)
    /\ NameOf(q) # NameOf(p)
    /\ DOMAIN downloads = {NameOf(p)}

\* C26: nothing a caller does with what getDownloads() returned changes the
\* registry: across the caller's writes getDownload(n) is the same record
\* for every n.
C26_CallerCannotWrite ==
  [][CallerWrites =>
       \A n \in Names : MapGet(downloads', n) = MapGet(downloads, n)]_vars

\* C27: every invocation eventually returns a response; one whose trigger
\* action completed and that returns with no download event emitted returns
\* the 'Download timeout after' error; one that took a download event
\* returns a success or a save error.
Terminates == \A p \in Invocations : (pc[p] # "idle") ~> Returned(p)
SaveError(p) ==
  resp[p].isError /\ Failed(settled[p].save) /\ ~IsTimeoutResponse(p)
AnswerByEvent ==
  \A p \in Invocations :
    Returned(p) =>
      /\ (settled[p].trigger = Ok /\ evAt[p] < 0) => IsTimeoutResponse(p)
      /\ saving[p].download # NoDownload => ~resp[p].isError \/ SaveError(p)
C27_EventuallyAnswers == Terminates /\ []AnswerByEvent

\* ------------------------------------------- properties of LoadCookiesTool
Count(cs, op) == Cardinality({i \in DOMAIN cs : cs[i].op = op})
LoaderReturned == loader.pc = "done"
\* The invocation reached the two checks and passed both.
ChecksPassed ==
  loader.pc # "idle" /\ loader.page /\ Truthy(loader.key) /\ Truthy(loader.path)
\* createClient returned a client (connect was called on it).
ClientCreated == Made(loader.calls, "connect")
InFinally == loader.pc \in {"disconnect", "done"}

\* C21 (as stated): every invocation that passes the redis_key and
\* REDIS_PATH checks has called redisClient.disconnect() exactly once when
\* its response is returned, and the response is the one the try or catch
\* block produced, whatever disconnect came to.
C21_AlwaysDisconnects ==
  (ChecksPassed /\ LoaderReturned) =>
    /\ Count(loader.calls, "disconnect") = 1
    /\ loader.resp = loader.pending

\* C21 (amended): every invocation for which createClient returned a client
\* calls disconnect() exactly once, after the try block and before the
\* response is returned: no disconnect and no response while the try block
\* runs, one disconnect and still no response while it is awaited, and then
\* the response the try or catch block produced, whatever disconnect came to.
C21_DisconnectsCreatedClient ==
  ClientCreated =>
    /\ Count(loader.calls, "disconnect") = (IF InFinally THEN 1 ELSE 0)
    /\ ~LoaderReturned => loader.resp = NoResponse
    /\ LoaderReturned =>
         /\ loader.resp = loader.pending
         /\ loader.resp # NoResponse
\* addCookies failed, then disconnect failed: one disconnect, and the
\* response is the one of the addCookies failure.
C21_Witness ==
  /\ LoaderReturned /\ ClientCreated
  /\ Made(loader.calls, "addCookies")
  /\ Made(loader.calls, "console.warn")
  /\ Count(loader.calls, "disconnect") = 1
  /\ loader.resp = LoadCatch(Err(<<"boom">>))

\* C22 (as stated): a missing or empty redis_key is answered 'redis_key
\* parameter is required' and, with a redis_key, an unset REDIS_PATH is
\* answered 'REDIS_PATH environment variable is required'; on both paths no
\* call is made on Redis or on the browser.
KeyRequired == createErrorResponse(<<"redis_key parameter is required">>)
PathRequired ==
  createErrorResponse(<<"REDIS_PATH environment variable is required">>)
AnswersInvalidInput ==
  /\ ~Truthy(loader.key) => loader.resp = KeyRequired
  /\ (Truthy(loader.key) /\ ~Truthy(loader.path)) => loader.resp = PathRequired
  /\ (~Truthy(loader.key) \/ ~Truthy(loader.path)) => loader.calls = <<>>
C22_ValidatesInputsAlways == LoaderReturned => AnswersInvalidInput

\* C22 (amended): the same, for the invocations made with an active page.
C22_ValidatesInputsWithPage ==
  (LoaderReturned /\ loader.page) => AnswersInvalidInput
\* With neither a redis_key nor REDIS_PATH, the answer is about redis_key.
C22_Witness ==
  /\ LoaderReturned /\ loader.page
  /\ loader.key = Str("") /\ loader.path = Undef
  /\ loader.resp = KeyRequired
  /\ loader.calls = <<>>

\* C28: addCookies is called at most once, only after a successful connect,
\* a non-empty value for the key, a successful JSON parse and a non-empty
\* array at REDIS_PATH, and with the non-empty list of that array's entries
\* that have both name and value, each without its sameSite if that is not
\* one of Strict, Lax, None; the response is a success exactly when
\* addCookies completed, and then reports the length of the list passed.
HasNameAndValue(entry) ==
  entry.t = "object" /\ {"name", "value"} \subseteq DOMAIN entry.fields
InvalidSameSite(entry) ==
  "sameSite" \in DOMAIN entry.fields
    /\ entry.fields.sameSite \notin SameSiteValues
Validated(entry) ==
  IF InvalidSameSite(entry)
    THEN JObj([k \in DOMAIN entry.fields \ {"sameSite"} |-> entry.fields[k]])
  ELSE entry
ValidatedList(list) ==
  LET kept == SelectSeq(list, HasNameAndValue)
  IN [i \in 1..Len(kept) |-> Validated(kept[i])]
StoredArray ==
  IF /\ loader.stored.t = "string" /\ loader.stored.valid
     /\ loader.stored.json.t = "object"
     /\ "xpto" \in DOMAIN loader.stored.json.fields
     /\ loader.stored.json.fields.xpto.t = "object"
     /\ "cookies" \in DOMAIN loader.stored.json.fields.xpto.fields
     /\ loader.stored.json.fields.xpto.fields.cookies.t = "array"
    THEN loader.stored.json.fields.xpto.fields.cookies.items
  ELSE <<>>
AddedAfterChecks ==
  Made(loader.calls, "addCookies") =>
    /\ Made(loader.calls, "get")
    /\ loader.stored.t = "string" /\ loader.stored.s # ""
    /\ loader.stored.valid
    /\ StoredArray # <<>>
    /\ loader.given # <<>>
    /\ \A i \in DOMAIN loader.given : HasNameAndValue(loader.given[i])
SuccessIffAdded ==
  LoaderReturned =>
    /\ ~loader.resp.isError <=> loader.added = Ok
    /\ loader.added = Ok =>
         loader.resp = LoadSuccess(loader.given, loader.key.s, loader.path.s)
C28_SetsValidatedCookiesOnce ==
  /\ Count(loader.calls, "addCookies") <= 1
  /\ AddedAfterChecks
  /\ Made(loader.calls, "addCookies") =>
       loader.given = ValidatedList(StoredArray)
  /\ SuccessIffAdded

====
